---- MODULE Spec2Model ----
(***************************************************************************)
(* A model of the arithmetic rewrite rules of patronus-egraphs             *)
(* (src/patronus-egraphs/src/rewrites.rs) and of the snapshot handling of  *)
(* the interpreter (src/patronus/src/sim/interpreter.rs).                  *)
(*                                                                         *)
(* Widths are WidthInt (u32) in the source.  The model draws them from     *)
(* 1..MaxW, far below 2^32, so no u32 addition of the source wraps inside  *)
(* the model; every statement below is about widths in that range.         *)
(***************************************************************************)
EXTENDS Integers, Sequences, FiniteSets, TLC

VARIABLES
    \* the width predicates and conditions, called on plain widths
    wcall,      \* the call made: [fn, args]
    wret,       \* the value it returned
    wpc,        \* "call" before the call, "done" after it
    \* the construction of rules
    pargs,      \* the patterns handed to ArithRewrite::new, or the catalog
    pstatus,    \* "start", "built" or "aborted"
    pbuilt,     \* the names of the rules built
    \* export and saturation
    ecfg,       \* the expressions handed to the runner (widths, signs, shape)
    egraph,     \* the e-graph: the classes, each a set of terms
    estatus,    \* "running", "saturated" or "panicked"
    efired,     \* the (rule, substitution) pairs whose applier has run
    ediag,      \* the outcome of the last call of find_lhs_matches
    \* the interpreter
    isys,       \* the transition system simulated
    idata,      \* Interpreter::data, a set of <<symbol, value>>
    istep_count,\* Interpreter::step_count
    isnapshots, \* Interpreter::snapshots
    ilast,      \* the last call and what it returned
    itaken,     \* history: the store at each call of take_snapshot
    iprev       \* history: step_count and snapshots before the last call

varsW == <<wcall, wret, wpc>>
varsP == <<pargs, pstatus, pbuilt>>
varsE == <<ecfg, egraph, estatus, efired, ediag>>
varsI == <<isys, idata, istep_count, isnapshots, ilast, itaken, iprev>>
vars == <<varsW, varsP, varsE, varsI>>

(***************************************************************************)
(* The part of the state a specification does not use stays as it is here. *)
(***************************************************************************)
NoDiag == [rule |-> "none", outcome |-> "none", matches |-> {}]
NoCall == [op |-> "none", id |-> 0, ret |-> 0]

IdleW == wcall = [fn |-> "none", args |-> <<>>] /\ wret = FALSE /\ wpc = "idle"
IdleP == pargs = [kind |-> "none"] /\ pstatus = "idle" /\ pbuilt = <<>>
IdleE ==
    /\ ecfg = [kind |-> "none"] /\ egraph = {} /\ estatus = "idle"
    /\ efired = {} /\ ediag = NoDiag
IdleI ==
    /\ isys = [kind |-> "none"] /\ idata = {} /\ istep_count = 0
    /\ isnapshots = <<>> /\ ilast = NoCall /\ itaken = <<>>
    /\ iprev = [step_count |-> 0, snapshots |-> <<>>]

(***************************************************************************)
(* Bounds                                                                  *)
(***************************************************************************)
\* largest width drawn for an argument of a width predicate
MaxPredW == 8
\* largest width drawn for a condition variable of a rule
MaxW == 5
\* largest operand width whose values are enumerated for mult-to-add
MaxValW == 3

Widths == 1..MaxW
Signs == {0, 1}            \* 0 = unsign, 1 = sign

Max(a, b) == IF a >= b THEN a ELSE b

(***************************************************************************)
(* Width arithmetic                                                        *)
(***************************************************************************)
\* crate::arithmetic::eval_width_max_plus_1 (spec 4.1: maxPlus1)
eval_width_max_plus_1(a, b) == Max(a, b) + 1

\* crate::arithmetic::eval_width_left_shift (spec 4.1: widthOfLeftShift)
eval_width_left_shift(w, w_shift) == w + (2 ^ w_shift - 1)

add_no_ov(wo, wa, wb) == wo >= eval_width_max_plus_1(wa, wb)

\* faulty variant: the sum of the operand widths replaced by their maximum
mul_no_ov_max(wo, wa, wb) == wo >= Max(wa, wb)
mul_no_ov(wo, wa, wb) == wo >= wa + wb

lsh_no_ov(wo, wa, wb) == wo >= eval_width_left_shift(wa, wb)

(***************************************************************************)
(* The conditions of the rules of create_rewrites; w is the slice of       *)
(* values of the rule's condition variables (w[0] of the source is w[1]).  *)
(***************************************************************************)
\* if["?wo", "?wab"], |w| w[1] >= w[0]
merge_left_shift_cond(w) == w[2] >= w[1]

\* if["?wbc", "?wb", "?wc"], |w| w[0] >= (max(w[1], w[2]) + 1)
\* faulty variant: a strict comparison
unmerge_left_shift_cond_strict(w) == w[1] > (Max(w[2], w[3]) + 1)
unmerge_left_shift_cond(w) == w[1] >= (Max(w[2], w[3]) + 1)

\* if["?wb", "?sb", "?wo"]
\* faulty variant: a signed 2-bit literal accepted
mult_to_add_cond_signed_gt_1(w) ==
    (w[2] = 0 /\ w[1] > 1) \/ (w[2] = 1 /\ w[1] > 1) \/ w[3] <= w[1]
mult_to_add_cond(w) ==
    (w[2] = 0 /\ w[1] > 1) \/ (w[2] = 1 /\ w[1] > 2) \/ w[3] <= w[1]

\* if["?wab", "?wa", "?wb", "?wo", "?wc"]
\* faulty variant: the shift of the product left unchecked
left_shift_mult_cond_mul_only(w) == mul_no_ov(w[1], w[2], w[3])
left_shift_mult_cond(w) ==
    mul_no_ov(w[1], w[2], w[3]) /\ lsh_no_ov(w[4], w[1], w[5])

(***************************************************************************)
(* Calls of the width predicates and of the two conditions that are        *)
(* stated over plain widths.                                               *)
(***************************************************************************)
WCalls ==
    [fn : {"add_no_ov", "mul_no_ov", "lsh_no_ov"},
     args : (1..MaxPredW) \X (1..MaxPredW) \X (1..MaxPredW)]
    \cup [fn : {"left-shift-mult"},
          args : Widths \X Widths \X Widths \X Widths \X Widths]
    \cup [fn : {"mult-to-add"},
          \* wb, sb, wo, then the operand: wa, sa and its bits a
          args : {t \in Widths \X Signs \X Widths \X (1..MaxValW) \X Signs
                          \X (0..(2 ^ MaxValW - 1)) : t[6] < 2 ^ t[4]}]

InitW == wcall \in WCalls /\ wret = FALSE /\ wpc = "call"

EvalAddNoOv ==
    /\ wpc = "call" /\ wcall.fn = "add_no_ov"
    /\ wret' = add_no_ov(wcall.args[1], wcall.args[2], wcall.args[3])
    /\ wpc' = "done" /\ UNCHANGED <<wcall, varsP, varsE, varsI>>

EvalMulNoOv ==
    /\ wpc = "call" /\ wcall.fn = "mul_no_ov"
    /\ wret' = mul_no_ov(wcall.args[1], wcall.args[2], wcall.args[3])
    /\ wpc' = "done" /\ UNCHANGED <<wcall, varsP, varsE, varsI>>

EvalLshNoOv ==
    /\ wpc = "call" /\ wcall.fn = "lsh_no_ov"
    /\ wret' = lsh_no_ov(wcall.args[1], wcall.args[2], wcall.args[3])
    /\ wpc' = "done" /\ UNCHANGED <<wcall, varsP, varsE, varsI>>

EvalLeftShiftMultCond ==
    /\ wpc = "call" /\ wcall.fn = "left-shift-mult"
    /\ wret' = left_shift_mult_cond(wcall.args)
    /\ wpc' = "done" /\ UNCHANGED <<wcall, varsP, varsE, varsI>>

EvalMultToAddCond ==
    /\ wpc = "call" /\ wcall.fn = "mult-to-add"
    /\ wret' = mult_to_add_cond(SubSeq(wcall.args, 1, 3))
    /\ wpc' = "done" /\ UNCHANGED <<wcall, varsP, varsE, varsI>>

NextW ==
    \/ EvalAddNoOv
    \/ EvalMulNoOv
    \/ EvalLshNoOv
    \/ EvalLeftShiftMultCond
    \/ EvalMultToAddCond

InitWidth == InitW /\ IdleP /\ IdleE /\ IdleI

SpecWidth == InitWidth /\ [][NextW]_vars

(***************************************************************************)
(* C9                                                                      *)
(***************************************************************************)
\* C9: a finished call of add_no_ov(w, a, b) returned exactly
\* w >= max(a, b) + 1, of mul_no_ov(w, a, b) exactly w >= a + b, and of
\* lsh_no_ov(w, v, s) exactly w >= v + (2^s - 1).
C9_PredicatesExact ==
    wpc = "done" =>
        LET w == wcall.args[1]
            a == wcall.args[2]
            b == wcall.args[3]
            m == IF a >= b THEN a ELSE b
        IN /\ wcall.fn = "add_no_ov" => (wret <=> w >= m + 1)
           /\ wcall.fn = "mul_no_ov" => (wret <=> w >= a + b)
           /\ wcall.fn = "lsh_no_ov" => (wret <=> w >= a + (2 ^ b - 1))

\* a call of mul_no_ov at the boundary w = a + b has returned true
C9_Witness ==
    /\ wpc = "done" /\ wcall.fn = "mul_no_ov"
    /\ wcall.args[1] = wcall.args[2] + wcall.args[3] /\ wret

(***************************************************************************)
(* C1                                                                      *)
(***************************************************************************)
\* C1: whenever the condition of left-shift-mult returned true for
\* (wab, wa, wb, wo, wc), the original order is overflow free
\* (mulNoOverflow(wab, wa, wb), shiftNoOverflow(wo, wab, wc)) and so is the
\* reassociated order with wac = wa + (2^wc - 1)
\* (shiftNoOverflow(wac, wa, wc), mulNoOverflow(wo, wac, wb)); when one of
\* the four fails the condition returned false.
C1_LeftShiftMultNoOverflow ==
    (wpc = "done" /\ wcall.fn = "left-shift-mult") =>
        LET wab == wcall.args[1]
            wa == wcall.args[2]
            wb == wcall.args[3]
            wo == wcall.args[4]
            wc == wcall.args[5]
            wac == wa + (2 ^ wc - 1)
            allFour == /\ wab >= wa + wb
                       /\ wo >= wab + (2 ^ wc - 1)
                       /\ wac >= wa + (2 ^ wc - 1)
                       /\ wo >= wac + wb
        IN /\ wret => allFour
           /\ ~allFour => ~wret

\* the condition of left-shift-mult has returned true
C1_Witness == wpc = "done" /\ wcall.fn = "left-shift-mult" /\ wret

(***************************************************************************)
(* C2                                                                      *)
(***************************************************************************)
\* the integer a w-bit pattern of the given sign stands for
ValueOf(bits, w, s) ==
    IF s = 1 /\ bits >= 2 ^ (w - 1) THEN bits - 2 ^ w ELSE bits

\* the literal 2 read as a wb-bit constant of sign sb
Literal2(wb, sb) == ValueOf(2 % (2 ^ wb), wb, sb)

\* C2: whenever the condition of mult-to-add returned true for (wb, sb, wo),
\* the product of the operand with the literal 2 read as a wb-bit constant
\* of sign sb, truncated to wo bits, equals operand + operand truncated to
\* wo bits, for the operand (wa, sa, a) of the call.
C2_MultToAddSound ==
    (wpc = "done" /\ wcall.fn = "mult-to-add" /\ wret) =>
        LET wb == wcall.args[1]
            sb == wcall.args[2]
            wo == wcall.args[3]
            a == ValueOf(wcall.args[6], wcall.args[4], wcall.args[5])
        IN (a * Literal2(wb, sb)) % (2 ^ wo) = (a + a) % (2 ^ wo)

\* the condition held only through wo <= wb, with the literal read as -2
C2_Witness ==
    /\ wpc = "done" /\ wcall.fn = "mult-to-add" /\ wret
    /\ wcall.args[1] = 2 /\ wcall.args[2] = 1 /\ wcall.args[3] = 2
    /\ wcall.args[6] = 1

(***************************************************************************)
(* Patterns.  A pattern is the tree its text parses to: <<"?", name>> is a *)
(* pattern variable, <<op>> a constant (unsign, sign, 2) and               *)
(* <<op, p1, ..., pn>> an operator node.  A binary arithmetic node has the *)
(* seven slots (w, w_a, s_a, a, w_b, s_b, b).                              *)
(***************************************************************************)
V(name) == <<"?", name>>
Bin(op, w, wa, sa, a, wb, sb, b) == <<op, w, wa, sa, a, wb, sb, b>>
unsign == <<"unsign">>
MaxP1(a, b) == <<"max+1", a, b>>
Wlsh(a, b) == <<"wlsh", a, b>>

IsVar(p) == p[1] = "?"
IsLeaf(p) == Len(p) = 1

\* "(+ ?wo ?wa ?sa ?a ?wb ?sb ?b)"
commute_add_lhs ==
    Bin("+", V("wo"), V("wa"), V("sa"), V("a"), V("wb"), V("sb"), V("b"))
\* "(+ ?wo ?wb ?sb ?b ?wa ?sa ?a)"
\* faulty variant: the operands swapped without their widths and signs
commute_add_rhs_exprs_only ==
    Bin("+", V("wo"), V("wa"), V("sa"), V("b"), V("wb"), V("sb"), V("a"))
commute_add_rhs ==
    Bin("+", V("wo"), V("wb"), V("sb"), V("b"), V("wa"), V("sa"), V("a"))
\* "(* ?wo ?wa ?sa ?a ?wb ?sb ?b)"
commute_mul_lhs ==
    Bin("*", V("wo"), V("wa"), V("sa"), V("a"), V("wb"), V("sb"), V("b"))
\* "(* ?wo ?wb ?sb ?b ?wa ?sa ?a)"
commute_mul_rhs ==
    Bin("*", V("wo"), V("wb"), V("sb"), V("b"), V("wa"), V("sa"), V("a"))
\* "(<< ?wo ?wab ?sa (<< ?wab ?wa ?sa ?a ?wb unsign ?b) ?wc unsign ?c)"
merge_left_shift_lhs ==
    Bin("<<", V("wo"), V("wab"), V("sa"),
        Bin("<<", V("wab"), V("wa"), V("sa"), V("a"), V("wb"), unsign, V("b")),
        V("wc"), unsign, V("c"))
\* "(<< ?wo ?wa ?sa ?a (max+1 ?wb ?wc) unsign
\*      (+ (max+1 ?wb ?wc) ?wb unsign ?b ?wc unsign ?c))"
\* faulty variant: the shift amount declared with width ?wb
merge_left_shift_rhs_unthreaded ==
    Bin("<<", V("wo"), V("wa"), V("sa"), V("a"),
        V("wb"), unsign,
        Bin("+", MaxP1(V("wb"), V("wc")), V("wb"), unsign, V("b"),
            V("wc"), unsign, V("c")))
merge_left_shift_rhs ==
    Bin("<<", V("wo"), V("wa"), V("sa"), V("a"),
        MaxP1(V("wb"), V("wc")), unsign,
        Bin("+", MaxP1(V("wb"), V("wc")), V("wb"), unsign, V("b"),
            V("wc"), unsign, V("c")))
\* "(<< ?wo ?wa ?sa ?a ?wbc unsign (+ ?wbc ?wb unsign ?b ?wc unsign ?c))"
unmerge_left_shift_lhs ==
    Bin("<<", V("wo"), V("wa"), V("sa"), V("a"), V("wbc"), unsign,
        Bin("+", V("wbc"), V("wb"), unsign, V("b"), V("wc"), unsign, V("c")))
\* "(<< ?wo (wlsh ?wa ?wb) ?sa
\*      (<< (wlsh ?wa ?wb) ?wa ?sa ?a ?wb unsign ?b) ?wc unsign ?c)"
unmerge_left_shift_rhs ==
    Bin("<<", V("wo"), Wlsh(V("wa"), V("wb")), V("sa"),
        Bin("<<", Wlsh(V("wa"), V("wb")), V("wa"), V("sa"), V("a"),
            V("wb"), unsign, V("b")),
        V("wc"), unsign, V("c"))
\* "(* ?wo ?wa ?sa ?a ?wb ?sb 2)"
mult_to_add_lhs ==
    Bin("*", V("wo"), V("wa"), V("sa"), V("a"), V("wb"), V("sb"), <<"2">>)
\* "(+ ?wo ?wa ?sa ?a ?wa ?sa ?a)"
mult_to_add_rhs ==
    Bin("+", V("wo"), V("wa"), V("sa"), V("a"), V("wa"), V("sa"), V("a"))
\* "(<< ?wo ?wab unsign (* ?wab ?wa unsign ?a ?wb unsign ?b) ?wc unsign ?c)"
left_shift_mult_lhs ==
    Bin("<<", V("wo"), V("wab"), unsign,
        Bin("*", V("wab"), V("wa"), unsign, V("a"), V("wb"), unsign, V("b")),
        V("wc"), unsign, V("c"))
\* "(* ?wo (wlsh ?wa ?wc) unsign
\*     (<< (wlsh ?wa ?wc) ?wa unsign ?a ?wc unsign ?c) ?wb unsign ?b)"
left_shift_mult_rhs ==
    Bin("*", V("wo"), Wlsh(V("wa"), V("wc")), unsign,
        Bin("<<", Wlsh(V("wa"), V("wc")), V("wa"), unsign, V("a"),
            V("wc"), unsign, V("c")),
        V("wb"), unsign, V("b"))

\* the arguments create_rewrites hands to ArithRewrite::new, in its order
RewriteArgs ==
    << [name |-> "commute-add", lhs |-> commute_add_lhs,
        rhs_derived |-> commute_add_rhs, cond_vars |-> <<>>,
        has_cond |-> FALSE],
       [name |-> "commute-mul", lhs |-> commute_mul_lhs,
        rhs_derived |-> commute_mul_rhs, cond_vars |-> <<>>,
        has_cond |-> FALSE],
       [name |-> "merge-left-shift", lhs |-> merge_left_shift_lhs,
        rhs_derived |-> merge_left_shift_rhs, cond_vars |-> <<"wo", "wab">>,
        has_cond |-> TRUE],
       [name |-> "unmerge-left-shift", lhs |-> unmerge_left_shift_lhs,
        rhs_derived |-> unmerge_left_shift_rhs,
        cond_vars |-> <<"wbc", "wb", "wc">>, has_cond |-> TRUE],
       [name |-> "mult-to-add", lhs |-> mult_to_add_lhs,
        rhs_derived |-> mult_to_add_rhs, cond_vars |-> <<"wb", "sb", "wo">>,
        has_cond |-> TRUE],
       [name |-> "left-shift-mult", lhs |-> left_shift_mult_lhs,
        rhs_derived |-> left_shift_mult_rhs,
        cond_vars |-> <<"wab", "wa", "wb", "wo", "wc">>,
        has_cond |-> TRUE] >>

\* the fn pointer stored in ArithRewrite::cond, applied to a slice
Cond(name, w) ==
    CASE name = "merge-left-shift" -> merge_left_shift_cond(w)
      [] name = "unmerge-left-shift" -> unmerge_left_shift_cond(w)
      [] name = "mult-to-add" -> mult_to_add_cond(w)
      [] name = "left-shift-mult" -> left_shift_mult_cond(w)
      [] OTHER -> TRUE

(***************************************************************************)
(* The pattern AST the checker walks: the vector of nodes egg keeps for a  *)
(* parsed pattern, children before parents, every distinct sub-pattern     *)
(* once (Pattern::new compacts the parsed RecExpr), children given by      *)
(* index.  Indices are 1-based here and 0-based in the source.             *)
(***************************************************************************)
RECURSIVE Parsed(_)
RECURSIVE ParsedFrom(_, _)
\* the sub-patterns of p in the order the parser pushes their nodes
Parsed(p) == IF IsVar(p) \/ IsLeaf(p) THEN <<p>> ELSE ParsedFrom(p, 2)
ParsedFrom(p, i) ==
    IF i > Len(p) THEN <<p>> ELSE Parsed(p[i]) \o ParsedFrom(p, i + 1)

\* lhs.parse::<_>().unwrap(): the ast of the pattern, compacted
Ast(p) ==
    LET raw == Parsed(p)
        kept == {i \in 1..Len(raw) : \A j \in 1..(i - 1) : raw[j] # raw[i]}
        IdOf(t) ==
            LET first == CHOOSE i \in kept : raw[i] = t
            IN Cardinality({k \in kept : k <= first})
        Node(t) ==
            IF IsVar(t) \/ IsLeaf(t)
            THEN t
            ELSE <<t[1]>> \o [k \in 1..(Len(t) - 1) |-> IdOf(t[k + 1])]
    IN [n \in 1..Cardinality(kept) |->
           Node(raw[CHOOSE i \in kept : Cardinality({k \in kept : k <= i}) = n])]

\* crate::is_bin_op (spec 3: the binary arithmetic operators)
is_bin_op(e) == e[1] \in {"+", "*", "<<"}

\* the index of the output width, 0 for None
get_output_width_id(e) == IF is_bin_op(e) THEN e[2] ELSE 0

\* TRUE when no assert_eq! of the walk fails
\* faulty variant: operand b left unchecked
check_width_consistency_a_only(exprs) ==
    \A i \in 1..Len(exprs) :
        is_bin_op(exprs[i]) =>
            LET a_width_id == exprs[i][3]
                a_id == exprs[i][5]
                a_op_out_width_id == get_output_width_id(exprs[a_id])
            IN a_op_out_width_id # 0 => a_width_id = a_op_out_width_id
check_width_consistency(exprs) ==
    \A i \in 1..Len(exprs) :
        is_bin_op(exprs[i]) =>
            LET a_width_id == exprs[i][3]
                a_id == exprs[i][5]
                a_op_out_width_id == get_output_width_id(exprs[a_id])
                b_width_id == exprs[i][6]
                b_id == exprs[i][8]
                b_op_out_width_id == get_output_width_id(exprs[b_id])
            IN /\ a_op_out_width_id # 0 => a_width_id = a_op_out_width_id
               /\ b_op_out_width_id # 0 => b_width_id = b_op_out_width_id

\* ArithRewrite::new: TRUE when the rule is built, FALSE when an assertion
\* of check_width_consistency aborts the construction
new(name, lhs, rhs_derived) ==
    /\ check_width_consistency(Ast(lhs))
    /\ check_width_consistency(Ast(rhs_derived))

(***************************************************************************)
(* Rule construction.                                                      *)
(***************************************************************************)
\* nesting depth of the operands of the generated patterns
NestDepth == 2

WidthSlots == {V("w1"), MaxP1(V("w1"), V("w2"))}
LeafOperands == {V("a"), <<"2">>, Wlsh(V("w1"), V("w2"))}

RECURSIVE Operands(_, _)
Operands(op, d) ==
    IF d = 0
    THEN LeafOperands
    ELSE LeafOperands \cup
         {Bin(op, w, V("w1"), V("sa"), x, V("w2"), V("sb"), V("b")) :
            w \in WidthSlots, x \in Operands(op, d - 1)}

GenLhs ==
    UNION {{Bin(op, V("wo"), wa, V("sa"), x, wb, V("sb"), y) :
              wa \in WidthSlots, wb \in WidthSlots,
              x \in Operands(op, NestDepth), y \in Operands(op, 1)} :
           op \in {"+", "*", "<<"}}

GenRhs ==
    {commute_add_rhs, merge_left_shift_rhs, merge_left_shift_rhs_unthreaded,
     Bin("*", V("wo"), V("w2"), V("sa"),
         Bin("<<", V("w1"), V("w1"), V("sa"), V("a"), V("w1"), unsign, V("b")),
         V("w1"), unsign, V("c"))}

InitP ==
    /\ pargs \in [kind : {"rule"}, lhs : GenLhs, rhs_derived : GenRhs]
                 \cup {[kind |-> "catalog"]}
    /\ pstatus = "start"
    /\ pbuilt = <<>>

\* ArithRewrite::new on one pair of patterns
New ==
    /\ pstatus = "start" /\ pargs.kind = "rule"
    /\ pstatus' = IF new("rule", pargs.lhs, pargs.rhs_derived)
                  THEN "built" ELSE "aborted"
    /\ pbuilt' = IF pstatus' = "built" THEN <<"rule">> ELSE <<>>
    /\ UNCHANGED <<pargs, varsW, varsE, varsI>>

\* the rules of RewriteArgs[1..n] all get built
RECURSIVE BuiltUpTo(_)
BuiltUpTo(n) ==
    IF n = 0 THEN TRUE
    ELSE /\ BuiltUpTo(n - 1)
         /\ new(RewriteArgs[n].name, RewriteArgs[n].lhs,
                RewriteArgs[n].rhs_derived)

\* create_rewrites: the vec! builds the rules in order; the first failing
\* assertion aborts it
create_rewrites ==
    /\ pstatus = "start" /\ pargs.kind = "catalog"
    /\ LET n == CHOOSE k \in 0..Len(RewriteArgs) :
                   /\ BuiltUpTo(k)
                   /\ (k < Len(RewriteArgs) => ~BuiltUpTo(k + 1))
       IN /\ pbuilt' = [i \in 1..n |-> RewriteArgs[i].name]
          /\ pstatus' = IF n = Len(RewriteArgs) THEN "built" ELSE "aborted"
    /\ UNCHANGED <<pargs, varsW, varsE, varsI>>

NextP ==
    \/ New
    \/ create_rewrites

InitCheck == InitP /\ IdleW /\ IdleE /\ IdleI

SpecCheck == InitCheck /\ [][NextP]_vars

(***************************************************************************)
(* C6, C7                                                                  *)
(***************************************************************************)
\* the pattern holds a binary arithmetic node with an operand that is a
\* binary arithmetic node whose output width slot is another expression
\* than the width the parent declares for that operand
IsBinPattern(p) == ~IsVar(p) /\ p[1] \in {"+", "*", "<<"}
RECURSIVE HasInconsistentWidth(_)
HasInconsistentWidth(p) ==
    IF IsVar(p) \/ IsLeaf(p)
    THEN FALSE
    ELSE \/ /\ IsBinPattern(p)
            /\ \/ IsBinPattern(p[5]) /\ p[5][2] # p[3]
               \/ IsBinPattern(p[8]) /\ p[8][2] # p[6]
         \/ \E i \in 2..Len(p) : HasInconsistentWidth(p[i])

\* C6: the construction of a rule aborts if and only if its LHS or its
\* derived RHS holds a binary node with a binary operand whose output width
\* slot differs from the width slot the parent declares for it.
C6_AbortsIffInconsistent ==
    (pargs.kind = "rule" /\ pstatus # "start") =>
        (pstatus = "aborted" <=>
            \/ HasInconsistentWidth(pargs.lhs)
            \/ HasInconsistentWidth(pargs.rhs_derived))

\* a rule whose only inconsistent edge is the second operand of a node
\* nested in the first operand of the LHS has been refused
C6_Witness ==
    /\ pargs.kind = "rule" /\ pstatus = "aborted"
    /\ ~HasInconsistentWidth(pargs.rhs_derived)
    /\ IsBinPattern(pargs.lhs[5])
    /\ pargs.lhs[5][2] = pargs.lhs[3]
    /\ ~IsBinPattern(pargs.lhs[5][5])
    /\ IsBinPattern(pargs.lhs[8]) /\ pargs.lhs[8][2] # pargs.lhs[6]

\* C7: create_rewrites builds all six rules: the checker accepts the LHS
\* and the derived RHS of each, and no nested binary node of them has an
\* output width slot other than the width its parent declares.
C7_CatalogAccepted ==
    (pargs.kind = "catalog" /\ pstatus # "start") =>
        /\ pstatus = "built"
        /\ pbuilt = <<"commute-add", "commute-mul", "merge-left-shift",
                      "unmerge-left-shift", "mult-to-add", "left-shift-mult">>
        /\ \A i \in 1..Len(RewriteArgs) :
              /\ ~HasInconsistentWidth(RewriteArgs[i].lhs)
              /\ ~HasInconsistentWidth(RewriteArgs[i].rhs_derived)

\* the catalog has been built
C7_Witness ==
    pargs.kind = "catalog" /\ pstatus = "built" /\ Len(pbuilt) = 6

(***************************************************************************)
(* The e-graph.  The graph service (egg) is modelled by what it keeps: a   *)
(* set of terms closed under sub-terms, partitioned into equivalence       *)
(* classes closed under congruence.  A term is <<"w", n>> (a width         *)
(* constant), <<name>> (unsign, sign, 2 or a symbol) or                    *)
(* <<op, t1, ..., tn>>.  A substitution binds a pattern variable to a term *)
(* of the class it stands for (<<>> when unbound).                         *)
(***************************************************************************)
W(n) == <<"w", n>>
SignTerm(s) == IF s = 0 THEN <<"unsign">> ELSE <<"sign">>

IsAtom(t) == Len(t) = 1 \/ t[1] = "w"

RECURSIVE Subterms(_)
Subterms(t) ==
    IF IsAtom(t) THEN {t}
    ELSE {t} \cup UNION {Subterms(t[i]) : i \in 2..Len(t)}

Terms(g) == UNION g
ClassOf(g, t) == CHOOSE b \in g : t \in b
Rep(b) == CHOOSE t \in b : TRUE
SameClass(g, t, u) == t \in Terms(g) /\ u \in Terms(g) /\ ClassOf(g, t) = ClassOf(g, u)

MergeClasses(g, b1, b2) == (g \ {b1, b2}) \cup {b1 \cup b2}

\* egraph.union for every pair of terms
RECURSIVE UnionAll(_, _)
UnionAll(g, pairs) ==
    LET todo == {p \in pairs : ClassOf(g, p[1]) # ClassOf(g, p[2])}
    IN IF todo = {} THEN g
       ELSE LET p == CHOOSE q \in todo : TRUE
            IN UnionAll(MergeClasses(g, ClassOf(g, p[1]), ClassOf(g, p[2])), pairs)

\* egraph.rebuild: two nodes with the same operator and children in the
\* same classes end in one class
RECURSIVE Congruence(_)
Congruence(g) ==
    LET Sig(t) == [k \in 1..Len(t) |->
                      IF k = 1 THEN t[1] ELSE Rep(ClassOf(g, t[k]))]
        sigs == UNION {{<<Sig(t), b>> : t \in {u \in b : ~IsAtom(u)}} : b \in g}
        clash == {p \in sigs \X sigs : p[1][1] = p[2][1] /\ p[1][2] # p[2][2]}
    IN IF clash = {} THEN g
       ELSE LET p == CHOOSE q \in clash : TRUE
            IN Congruence(MergeClasses(g, p[1][2], p[2][2]))

Rebuild(g, pairs) == Congruence(UnionAll(g, pairs))

\* egraph.add of every term of ts, each new term in a class of its own
AddTerms(g, ts) ==
    g \cup {{u} : u \in (UNION {Subterms(t) : t \in ts}) \ Terms(g)}

(***************************************************************************)
(* The constant-folding lookup (crate::WidthConstantFold and               *)
(* crate::get_const_width_or_sign): {} for None, {n} for Some(n).          *)
(***************************************************************************)
RECURSIVE get_const_width_or_sign(_, _)
ConstOfTerm(g, t) ==
    CASE t[1] = "w" -> {t[2]}
      [] t[1] = "unsign" -> {0}
      [] t[1] = "sign" -> {1}
      [] t[1] = "max+1" ->
            LET a == get_const_width_or_sign(g, t[2])
                b == get_const_width_or_sign(g, t[3])
            IN {eval_width_max_plus_1(x, y) : x \in a, y \in b}
      [] t[1] = "wlsh" ->
            LET a == get_const_width_or_sign(g, t[2])
                b == get_const_width_or_sign(g, t[3])
            IN {eval_width_left_shift(x, y) : x \in a, y \in b}
      [] OTHER -> {}
get_const_width_or_sign(g, t) ==
    LET ds == UNION {ConstOfTerm(g, u) : u \in ClassOf(g, t)}
    IN IF ds = {} THEN {} ELSE {CHOOSE d \in ds : \A e \in ds : d >= e}

(***************************************************************************)
(* Search and instantiation of patterns (egg: Searcher and Applier).       *)
(***************************************************************************)
PatVars == {"wo", "wa", "sa", "a", "wb", "sb", "b", "wab", "wc", "c", "wbc"}
NoSubst == [v \in PatVars |-> <<>>]
Compatible(s1, s2) ==
    \A v \in PatVars : s1[v] = <<>> \/ s2[v] = <<>> \/ s1[v] = s2[v]
Combine(s1, s2) == [v \in PatVars |-> IF s1[v] = <<>> THEN s2[v] ELSE s1[v]]

RECURSIVE Search(_, _, _)
RECURSIVE SearchArgs(_, _, _, _)
\* the substitutions under which pattern p matches the class b
Search(g, p, b) ==
    IF IsVar(p) THEN {[NoSubst EXCEPT ![p[2]] = Rep(b)]}
    ELSE IF IsLeaf(p) THEN (IF p \in b THEN {NoSubst} ELSE {})
    ELSE UNION {SearchArgs(g, p, t, 2) :
                  t \in {u \in b : u[1] = p[1] /\ Len(u) = Len(p)}}
SearchArgs(g, p, t, i) ==
    IF i > Len(p) THEN {NoSubst}
    ELSE LET here == Search(g, p[i], ClassOf(g, t[i]))
             rest == SearchArgs(g, p, t, i + 1)
         IN {Combine(q[1], q[2]) :
                q \in {r \in here \X rest : Compatible(r[1], r[2])}}

RECURSIVE Instantiate(_, _)
Instantiate(p, s) ==
    IF IsVar(p) THEN s[p[2]]
    ELSE IF IsLeaf(p) THEN p
    ELSE [k \in 1..Len(p) |-> IF k = 1 THEN p[1] ELSE Instantiate(p[k], s)]

\* every (rule, eclass, substitution) the searchers of the rules find
Matches(g, rules) ==
    UNION {UNION {{[rule |-> i, eclass |-> Rep(b), subst |-> s] :
                      s \in Search(g, rules[i].lhs, b)} : b \in g} :
           i \in 1..Len(rules)}

(***************************************************************************)
(* ArithRewrite::to_egg: the condition closure of a conditional rule.      *)
(***************************************************************************)
\* the results of get_const_width_or_sign for the condition variables
Lookups(g, r, s) ==
    [k \in 1..Len(r.cond_vars) |-> get_const_width_or_sign(g, s[r.cond_vars[k]])]

\* .expect("failed to find constant width") panics on a None
to_egg_panics(g, r, s) ==
    r.has_cond /\ \E k \in 1..Len(r.cond_vars) : Lookups(g, r, s)[k] = {}

\* the value of the closure (of TRUE for a rule without condition) when
\* no lookup fails
to_egg_condition(g, r, s) ==
    LET found == Lookups(g, r, s)
        values == [k \in 1..Len(r.cond_vars) |-> CHOOSE x \in found[k] : TRUE]
    IN r.has_cond => Cond(r.name, values)

\* create_egg_rewrites: the exported rules, in the order of the catalog
create_egg_rewrites == RewriteArgs

(***************************************************************************)
(* Export and saturation: the rules of create_egg_rewrites run by egg's    *)
(* Runner on the expressions of a test.                                    *)
(***************************************************************************)
\* largest output or intermediate width of an expression
MaxOutW == 5
\* largest width of an operand value
MaxOpW == 2
\* largest width of a shift amount
MaxAmtW == 2

OutW == 1..MaxOutW
OpW == 1..MaxOpW
AmtW == 1..MaxAmtW

\* a width slot of the expression: a constant, or a symbol no constant is
\* known for when ecfg.sym names the slot
WT(c, slot) == IF c.sym = slot THEN <<"W">> ELSE W(c[slot])

OperandA(c) ==
    IF c.opa = "sym" THEN <<"A">>
    ELSE Bin("*", WT(c, "wa"), WT(c, "wa"), SignTerm(c.sa), <<"C">>,
             WT(c, "wa"), SignTerm(c.sa), <<"D">>)

\* the expressions added with with_expr, in order
Roots(c) ==
    CASE c.kind \in {"add", "mul"} ->
            LET op == IF c.kind = "add" THEN "+" ELSE "*"
            IN << Bin(op, WT(c, "wo"), WT(c, "wa"), SignTerm(c.sa), OperandA(c),
                      WT(c, "wb"), SignTerm(c.sb), <<"B">>),
                  Bin(op, WT(c, "wo"), WT(c, "wb"), SignTerm(c.sb), <<"B">>,
                      WT(c, "wa"), SignTerm(c.sa), OperandA(c)) >>
      [] c.kind = "shl_shl" ->
            << Bin("<<", WT(c, "wo"), WT(c, "wab"), SignTerm(c.sa),
                   Bin("<<", WT(c, "wab"), WT(c, "wa"), SignTerm(c.sa), <<"A">>,
                       WT(c, "wb"), unsign, <<"B">>),
                   WT(c, "wc"), unsign, <<"C">>) >>
      [] c.kind = "shl_add" ->
            \* the field wab holds the width of the combined amount, wbc
            << Bin("<<", WT(c, "wo"), WT(c, "wa"), SignTerm(c.sa), <<"A">>,
                   WT(c, "wab"), unsign,
                   Bin("+", WT(c, "wab"), WT(c, "wb"), unsign, <<"B">>,
                       WT(c, "wc"), unsign, <<"C">>)) >>
      [] c.kind = "shl_mul" ->
            << Bin("<<", WT(c, "wo"), WT(c, "wab"), unsign,
                   Bin("*", WT(c, "wab"), WT(c, "wa"), unsign, <<"A">>,
                       WT(c, "wb"), unsign, <<"B">>),
                   WT(c, "wc"), unsign, <<"C">>) >>
      [] c.kind = "mul2" ->
            << Bin("*", WT(c, "wo"), WT(c, "wa"), SignTerm(c.sa), <<"A">>,
                   WT(c, "wb"), SignTerm(c.sb), <<"2">>) >>

Configs ==
    [kind : {"add", "mul"}, wo : OutW, wab : {1}, wa : OpW, sa : Signs,
     wb : OpW, sb : Signs, wc : {1}, sym : {"none"}, opa : {"sym", "mul"}]
    \cup [kind : {"add", "mul"}, wo : OutW, wab : {1}, wa : {1}, sa : Signs,
          wb : OpW, sb : Signs, wc : {1}, sym : {"wa"}, opa : {"sym"}]
    \cup [kind : {"shl_shl", "shl_add"}, wo : OutW, wab : OutW, wa : OpW,
          sa : Signs, wb : AmtW, sb : {0}, wc : AmtW, sym : {"none"},
          opa : {"sym"}]
    \cup [kind : {"shl_shl", "shl_add"}, wo : {1}, wab : OutW, wa : OpW,
          sa : {0}, wb : AmtW, sb : {0}, wc : AmtW, sym : {"wo"},
          opa : {"sym"}]
    \cup [kind : {"shl_shl", "shl_add"}, wo : OutW, wab : {1}, wa : OpW,
          sa : {0}, wb : AmtW, sb : {0}, wc : AmtW, sym : {"wab"},
          opa : {"sym"}]
    \cup [kind : {"shl_shl", "shl_add"}, wo : OutW, wab : OutW, wa : OpW,
          sa : {0}, wb : {1}, sb : {0}, wc : AmtW, sym : {"wb"},
          opa : {"sym"}]
    \cup [kind : {"shl_mul"}, wo : OutW, wab : OutW, wa : OpW, sa : {0},
          wb : OpW, sb : {0}, wc : AmtW, sym : {"none"}, opa : {"sym"}]
    \cup [kind : {"mul2"}, wo : OutW, wab : {1}, wa : OpW, sa : Signs,
          wb : OpW, sb : Signs, wc : {1}, sym : {"none"}, opa : {"sym"}]

\* Runner::default().with_expr(..).with_expr(..)
InitE ==
    /\ ecfg \in Configs
    /\ egraph = AddTerms({}, {Roots(ecfg)[i] : i \in 1..Len(Roots(ecfg))})
    /\ estatus = "running"
    /\ efired = {}
    /\ ediag = NoDiag

\* One iteration of Runner::run: every rule searches the graph, then the
\* applier of every match runs (a conditional applier evaluates the
\* condition closure of to_egg first), then the graph is rebuilt.  A panic
\* of a condition closure ends the run.
RunIteration ==
    /\ estatus = "running"
    /\ LET rules == create_egg_rewrites
           ms == Matches(egraph, rules)
           panics == \E m \in ms : to_egg_panics(egraph, rules[m.rule], m.subst)
           fire == {m \in ms : to_egg_condition(egraph, rules[m.rule], m.subst)}
           new_terms == {Instantiate(rules[m.rule].rhs_derived, m.subst) : m \in fire}
           unions == {<<m.eclass, Instantiate(rules[m.rule].rhs_derived, m.subst)>> :
                         m \in fire}
           next_graph == Rebuild(AddTerms(egraph, new_terms), unions)
       IN IF panics
          THEN /\ estatus' = "panicked"
               /\ UNCHANGED <<egraph, efired>>
          ELSE /\ egraph' = next_graph
               /\ efired' = efired \cup
                     {[rule |-> rules[m.rule].name, subst |-> m.subst] : m \in fire}
               /\ estatus' = IF next_graph = egraph THEN "saturated" ELSE "running"
    /\ UNCHANGED <<ecfg, ediag, varsW, varsP, varsI>>

NextE ==
    \/ RunIteration

InitEgg == InitE /\ IdleW /\ IdleP /\ IdleI

SpecEgg == InitEgg /\ [][NextE]_vars

(***************************************************************************)
(* C4, C5, C8                                                              *)
(***************************************************************************)
RuleNamed(name) ==
    RewriteArgs[CHOOSE i \in 1..Len(RewriteArgs) : RewriteArgs[i].name = name]

\* the applier of the rule has run for a substitution that binds the
\* variables of bind as bind does
FiredOn(name, bind) ==
    \E f \in efired :
        f.rule = name /\ \A v \in DOMAIN bind : f.subst[v] = bind[v]

\* C4: the condition closure never ends the run: a match with a condition
\* variable bound to a class without a known constant is skipped (the rule
\* does not fire for it) and the run goes on; a rule that fired had all its
\* condition variables resolved and its predicate true of their values in
\* the order of cond_vars.
C4_UnresolvedFailsMatch ==
    /\ estatus # "panicked"
    /\ \A f \in efired :
          LET r == RuleNamed(f.rule)
              found == Lookups(egraph, r, f.subst)
          IN r.has_cond =>
                /\ \A k \in 1..Len(r.cond_vars) : found[k] # {}
                /\ Cond(r.name, [k \in 1..Len(r.cond_vars) |->
                                    CHOOSE x \in found[k] : TRUE])

\* the terms of the shift rules for the widths of ecfg
ShiftBind(c) ==
    [wo |-> W(c.wo), wa |-> W(c.wa), sa |-> SignTerm(c.sa), a |-> <<"A">>,
     wb |-> W(c.wb), b |-> <<"B">>, wc |-> W(c.wc), c |-> <<"C">>]
\* a << (b + c), the amount of width max+1(wb, wc), as merge writes it
MergedBind(c) == ShiftBind(c) @@ [wbc |-> MaxP1(W(c.wb), W(c.wc))]
MergedTerm(c) == Instantiate(unmerge_left_shift_lhs, MergedBind(c))
\* (a << b) << c, the inner shift of width wlsh(wa, wb), as unmerge writes it
UnmergedBind(c) == ShiftBind(c) @@ [wab |-> Wlsh(W(c.wa), W(c.wb))]
UnmergedTerm(c) == Instantiate(merge_left_shift_lhs, UnmergedBind(c))

MergeGuard(c) == c.wab >= c.wo
UnmergeGuard(c) == c.wab >= (IF c.wb >= c.wc THEN c.wb ELSE c.wc) + 1
\* merge's guard for the term unmerge produces
RemergeGuard(c) == c.wa + (2 ^ c.wb - 1) >= c.wo

\* what both directions share: after saturation, from (a << b) << c under
\* merge's guard merge has produced a << (b + c), unmerge has fired on it
\* and everything is in the class of the original; from a << (b + c) under
\* unmerge's guard unmerge has produced (a << b) << c in the class of the
\* original
ShiftRoundTrip(c) ==
    /\ (c.kind = "shl_shl" /\ MergeGuard(c)) =>
          /\ SameClass(egraph, Roots(c)[1], MergedTerm(c))
          /\ FiredOn("unmerge-left-shift", MergedBind(c))
          /\ SameClass(egraph, Roots(c)[1], UnmergedTerm(c))
    /\ (c.kind = "shl_add" /\ UnmergeGuard(c)) =>
          /\ FiredOn("unmerge-left-shift", ShiftBind(c) @@ [wbc |-> W(c.wab)])
          /\ SameClass(egraph, Roots(c)[1], UnmergedTerm(c))

ShiftCase(c) ==
    \/ c.kind = "shl_shl" /\ MergeGuard(c)
    \/ c.kind = "shl_add" /\ UnmergeGuard(c)

\* C5 as stated: merge and unmerge are mutual inverses under their guards;
\* the term unmerge produces always satisfies merge's guard, merge fires on
\* it, and original and transformed expressions share a class.
C5_MutualInverses ==
    (estatus = "saturated" /\ ecfg.sym = "none") =>
        /\ ShiftRoundTrip(ecfg)
        /\ ShiftCase(ecfg) =>
              /\ FiredOn("merge-left-shift", UnmergedBind(ecfg))
              /\ SameClass(egraph, Roots(ecfg)[1], MergedTerm(ecfg))

\* C5 amended: as C5, but merge fires on the term unmerge produces exactly
\* when its intermediate width wa + 2^wb - 1 is at least wo; when it does,
\* a << (b + c) with the amount width max(wb, wc) + 1 is in the class too.
C5_InversesWhenRemergeGuard ==
    (estatus = "saturated" /\ ecfg.sym = "none") =>
        /\ ShiftRoundTrip(ecfg)
        /\ ShiftCase(ecfg) =>
              /\ FiredOn("merge-left-shift", UnmergedBind(ecfg))
                    <=> RemergeGuard(ecfg)
              /\ RemergeGuard(ecfg) =>
                    SameClass(egraph, Roots(ecfg)[1], MergedTerm(ecfg))

\* saturated from a << (b + c): unmerge fired, the term it produced is in
\* the class of the original and is too narrow for merge to fire on it
C5_Witness ==
    /\ estatus = "saturated" /\ ecfg.sym = "none"
    /\ ecfg.kind = "shl_add" /\ UnmergeGuard(ecfg) /\ ~RemergeGuard(ecfg)
    /\ SameClass(egraph, Roots(ecfg)[1], UnmergedTerm(ecfg))
    /\ ~FiredOn("merge-left-shift", UnmergedBind(ecfg))

\* C8: after saturation of a graph holding A + B and B + A (or A * B and
\* B * A) with the same output width, for any widths and signs of the
\* operands, the two roots are in the same class.
C8_CommuteRoundTrip ==
    (estatus = "saturated" /\ ecfg.kind \in {"add", "mul"}) =>
        SameClass(egraph, Roots(ecfg)[1], Roots(ecfg)[2])

\* saturated with A * B and B * A of different operand widths and signs in
\* one class
C8_Witness ==
    /\ estatus = "saturated" /\ ecfg.kind = "mul"
    /\ ecfg.wa # ecfg.wb /\ ecfg.sa # ecfg.sb
    /\ SameClass(egraph, Roots(ecfg)[1], Roots(ecfg)[2])

(***************************************************************************)
(* Introspection: ArithRewrite::find_lhs_matches on a graph.               *)
(***************************************************************************)
\* the variables of the pattern, in the order of its ast
vars_in_pattern(p) ==
    LET vs == SelectSeq(Ast(p), IsVar)
    IN [i \in 1..Len(vs) |-> vs[i][2]]

\* the (variable, value) pairs of the variables a constant is known for
substitution_to_assignment(g, s, p) ==
    LET known == SelectSeq(vars_in_pattern(p),
                           LAMBDA v : get_const_width_or_sign(g, s[v]) # {})
    IN [i \in 1..Len(known) |->
           <<known[i], CHOOSE w \in get_const_width_or_sign(g, s[known[i]]) : TRUE>>]

\* a.iter().find(|(k, _)| k == v).unwrap() panics when v is not in a
eval_condition_panics(r, a) ==
    r.has_cond /\ \E k \in 1..Len(r.cond_vars) :
                      \A i \in 1..Len(a) : a[i][1] # r.cond_vars[k]

\* the value of eval_condition when no unwrap fails
eval_condition(r, a) ==
    IF r.has_cond
    THEN Cond(r.name,
              [k \in 1..Len(r.cond_vars) |->
                  a[CHOOSE i \in 1..Len(a) :
                        /\ a[i][1] = r.cond_vars[k]
                        /\ \A j \in 1..(i - 1) : a[j][1] # r.cond_vars[k]][2]])
    ELSE TRUE

\* [outcome, matches]: the ArithMatch records returned, or the panic of
\* eval_condition
find_lhs_matches(r, g) ==
    LET found == UNION {{[eclass |-> Rep(b),
                          assign |-> substitution_to_assignment(g, s, r.lhs)] :
                            s \in Search(g, r.lhs, b)} : b \in g}
    IN IF \E m \in found : eval_condition_panics(r, m.assign)
       THEN [outcome |-> "panicked", matches |-> {}]
       ELSE [outcome |-> "returned",
             matches |-> {[eclass |-> m.eclass, assign |-> m.assign,
                           cond_res |-> eval_condition(r, m.assign)] :
                             m \in found}]

FindLhsMatches(i) ==
    /\ LET res == find_lhs_matches(RewriteArgs[i], egraph)
       IN ediag' = [rule |-> RewriteArgs[i].name, outcome |-> res.outcome,
                    matches |-> res.matches]
    /\ UNCHANGED <<ecfg, egraph, estatus, efired, varsW, varsP, varsI>>

NextF ==
    \/ \E i \in 1..Len(RewriteArgs) : FindLhsMatches(i)

InitFind == InitE /\ IdleW /\ IdleP /\ IdleI

SpecFind == InitFind /\ [][NextF]_vars

\* C3: find_lhs_matches never fails on a missing constant: the call
\* returns, and a match of a conditional rule with a condition variable
\* absent from its assignment is reported with cond_res = false.
C3_FindNeverFails ==
    ediag.rule # "none" =>
        /\ ediag.outcome = "returned"
        /\ \A m \in ediag.matches :
              LET r == RuleNamed(ediag.rule)
              IN (r.has_cond /\ \E k \in 1..Len(r.cond_vars) :
                                   \A i \in 1..Len(m.assign) :
                                       m.assign[i][1] # r.cond_vars[k])
                     => ~m.cond_res

(***************************************************************************)
(* The interpreter (src/patronus/src/sim/interpreter.rs).  The transition  *)
(* system has one state "s" and one input "i", both one bit wide; its init *)
(* and next expressions are inputs.  The store is a set of                 *)
(* <<symbol, value>> pairs.  Expressions are evaluated in a store that     *)
(* defines every symbol, and set writes a defined symbol: both hold after  *)
(* init.  A step of a system without next expression evaluates nothing     *)
(* and runs on any store, the empty one included.                          *)
(***************************************************************************)
\* cap on step_count (u64 in the source)
MaxSteps == 2
\* cap on the number of snapshots (the ids are u32 in the source)
MaxSnapshots == 2

Values == 0..1
Symbols == {"s", "i"}

Systems == [kind : {"sys"}, init : {"none", "one"}, next : {"none", "s+i"}]

Defined(store) == {p[1] : p \in store}
ValueIn(store, sym) == (CHOOSE p \in store : p[1] = sym)[2]
\* SymbolValueStore::define_bv, update, update_bv
Update(store, sym, value) == {p \in store : p[1] # sym} \cup {<<sym, value>>}

\* eval_expr of the init expression of "s"
EvalInit(sys, store) == 1
\* eval_expr of the next expression of "s"
EvalNext(sys, store) == (ValueIn(store, "s") + ValueIn(store, "i")) % 2

\* Interpreter::new
InitI ==
    /\ isys \in Systems
    /\ idata = {}
    /\ istep_count = 0
    /\ isnapshots = <<>>
    /\ ilast = NoCall
    /\ itaken = <<>>
    /\ iprev = [step_count |-> 0, snapshots |-> <<>>]

Before == [step_count |-> istep_count, snapshots |-> isnapshots]

\* Interpreter::init
init ==
    /\ LET zeroed == {<<"s", 0>>, <<"i", 0>>}
       IN idata' = IF isys.init = "one"
                   THEN Update(zeroed, "s", EvalInit(isys, zeroed))
                   ELSE zeroed
    /\ ilast' = [op |-> "init", id |-> 0, ret |-> 0]
    /\ iprev' = Before
    /\ UNCHANGED <<isys, istep_count, isnapshots, itaken, varsW, varsP, varsE>>

\* Interpreter::step
step ==
    /\ isys.next = "s+i" => Defined(idata) = Symbols
    /\ istep_count < MaxSteps
    /\ idata' = IF isys.next = "s+i"
                THEN Update(idata, "s", EvalNext(isys, idata))
                ELSE idata
    /\ istep_count' = istep_count + 1
    /\ ilast' = [op |-> "step", id |-> 0, ret |-> 0]
    /\ iprev' = Before
    /\ UNCHANGED <<isys, isnapshots, itaken, varsW, varsP, varsE>>

\* Interpreter::set
set(expr, value) ==
    /\ expr \in Defined(idata)
    /\ idata' = Update(idata, expr, value)
    /\ ilast' = [op |-> "set", id |-> 0, ret |-> 0]
    /\ iprev' = Before
    /\ UNCHANGED <<isys, istep_count, isnapshots, itaken, varsW, varsP, varsE>>

\* the id take_snapshot returns
take_snapshot_id(snapshots) == Len(snapshots)

\* Interpreter::take_snapshot
take_snapshot ==
    /\ Len(isnapshots) < MaxSnapshots
    /\ isnapshots' = Append(isnapshots, idata)
    /\ ilast' = [op |-> "take_snapshot", id |-> 0,
                 ret |-> take_snapshot_id(isnapshots)]
    /\ itaken' = Append(itaken, idata)
    /\ iprev' = Before
    /\ UNCHANGED <<isys, idata, istep_count, varsW, varsP, varsE>>

\* the store restore_snapshot assigns to data
\* faulty variant: the last snapshot restored whatever the id
restore_snapshot_latest(snapshots, id) == snapshots[Len(snapshots)]
restore_snapshot_data(snapshots, id) == snapshots[id + 1]

\* Interpreter::restore_snapshot, for an id take_snapshot has returned
restore_snapshot(id) ==
    /\ id < Len(isnapshots)
    /\ idata' = restore_snapshot_data(isnapshots, id)
    /\ ilast' = [op |-> "restore_snapshot", id |-> id, ret |-> 0]
    /\ iprev' = Before
    /\ UNCHANGED <<isys, istep_count, isnapshots, itaken, varsW, varsP, varsE>>

NextI ==
    \/ init
    \/ step
    \/ \E expr \in Symbols, value \in Values : set(expr, value)
    \/ take_snapshot
    \/ \E id \in 0..(MaxSnapshots - 1) : restore_snapshot(id)

InitInterp == InitI /\ IdleW /\ IdleP /\ IdleE

SpecInterp == InitInterp /\ [][NextI]_vars

\* C10: the k-th call of take_snapshot returned k - 1; restore_snapshot(id)
\* made the store equal to the store at the call of take_snapshot that
\* returned id and left step_count and the snapshots as they were; the
\* snapshots are, in order, the stores at the calls of take_snapshot: none
\* is removed or overwritten by any call.
C10_SnapshotsKept ==
    /\ isnapshots = itaken
    /\ ilast.op = "take_snapshot" => ilast.ret = Len(itaken) - 1
    /\ ilast.op = "restore_snapshot" =>
          /\ idata = itaken[ilast.id + 1]
          /\ istep_count = iprev.step_count
          /\ isnapshots = iprev.snapshots
    /\ \A k \in 1..Len(iprev.snapshots) :
          /\ k <= Len(isnapshots)
          /\ isnapshots[k] = iprev.snapshots[k]

\* the first of two different snapshots has been restored after a later
\* step changed the store
C10_Witness ==
    /\ ilast.op = "restore_snapshot" /\ ilast.id = 0
    /\ Len(isnapshots) = 2 /\ isnapshots[1] # isnapshots[2]
    /\ istep_count > 0
    /\ idata = itaken[1]
====
